---------------------------- MODULE Spec2Model ----------------------------
(***************************************************************************)
(* Kairoscope timeline core (src/script.js, lines 350-585): the pure       *)
(* helpers that the canvas controller composes every frame.                *)
(*                                                                         *)
(* Numbers.  JavaScript numbers are reals for the purposes of this model:  *)
(*   - a resolution (ms per pixel) and everything chooseTickInterval       *)
(*     derives from it is an exact rational [n |-> numerator,              *)
(*     d |-> denominator], d > 0; Infinity is the rational 1/0;            *)
(*   - a duration or tick interval is an exact multiple of 1/SubMs ms,     *)
(*     held in two limbs [s |-> whole seconds, f |-> remaining 1/SubMs ms] *)
(*     because a year of milliseconds does not fit a 32-bit integer.       *)
(*     With SubMs a power of two these are exactly the values a double     *)
(*     holds without rounding.                                             *)
(* Strings are strings; \o, Len, SubSeq and ToString act on them.          *)
(***************************************************************************)
EXTENDS Integers, Sequences, FiniteSets, TLC

VARIABLES
  pc,    \* "call": a helper is about to run on arg; "done": ret holds its result
  fn,    \* name of the exported helper being exercised
  arg,   \* record of the helper's arguments
  ret,   \* the value the helper returned ("" before the call)
  host,  \* the host platform: [utcOffsetMin |-> minutes local time is ahead of
         \* UTC, timeZoneName |-> the short name of its zone, where consulted]
  state, \* the controller's state object (src/script.js 24-41)
  dom,   \* what the controller has written to the page's controls
  elapsed \* the time since state.lastTapTime and since state.lastInteraction

vars == <<pc, fn, arg, ret, host, state, dom, elapsed>>

\* a helper exercised on its own: no controller is running
NoController == state = <<>> /\ dom = <<>> /\ elapsed = <<>>

(***************************************************************************)
(* Bounds of the input families.                                           *)
(***************************************************************************)
\* resolutions are r / ResDen ms per pixel for r in 1..MaxRes
MaxRes == 1000

\* the denominator 300 = 3 * 100 makes 120 * resolution land exactly on
\* powers of ten (r = 25, 250) and on the 1-versus-2 tie (r = 375)
ResDen == 3 * 100

(***************************************************************************)
(* Exact rational arithmetic (denominators are never negative).            *)
(***************************************************************************)
Rat(n, d) == [n |-> n, d |-> d]

RatInt(k) == Rat(k, 1)

RatMul(a, b) == Rat(a.n * b.n, a.d * b.d)

RatDiv(a, b) == Rat(a.n * b.d, a.d * b.n)

RatSub(a, b) == Rat(a.n * b.d - b.n * a.d, a.d * b.d)

RatAbs(a) == Rat(IF a.n < 0 THEN 0 - a.n ELSE a.n, a.d)

RatLess(a, b) == a.n * b.d < b.n * a.d

RatEq(a, b) == a.n * b.d = b.n * a.d

\* JavaScript's Infinity: larger than every finite rational under RatLess
Infinity == Rat(1, 0)

RECURSIVE IntPow10(_)
IntPow10(k) == IF k = 0 THEN 1 ELSE 10 * IntPow10(k - 1)

\* Math.pow(10, e) for an integer e of either sign
Pow10(e) == IF e >= 0 THEN Rat(IntPow10(e), 1) ELSE Rat(1, IntPow10(0 - e))

\* Math.floor(Math.log10(q)) for a rational q > 0
RECURSIVE FloorLog10(_)
FloorLog10(q) ==
  IF q.n < q.d THEN FloorLog10(Rat(10 * q.n, q.d)) - 1
  ELSE IF q.n < 10 * q.d THEN 0
  ELSE FloorLog10(Rat(q.n, 10 * q.d)) + 1

(***************************************************************************)
(* chooseTickInterval (src/script.js 408-431)                              *)
(***************************************************************************)
desiredPixelSpacing == 120

\* faulty variant: the base 5 is missing
baseCandidatesTwoOnly == <<1, 2>>

baseCandidates == <<1, 2, 5>>

\* const desiredMs = msPerPixel * desiredPixelSpacing
desiredMs(msPerPixel) == RatMul(msPerPixel, RatInt(desiredPixelSpacing))

\* const exponent = Math.floor(Math.log10(desiredMs))
tickExponent(msPerPixel) == FloorLog10(desiredMs(msPerPixel))

\* const candidate = base * Math.pow(10, exponent)
tickCandidate(base, exponent) == RatMul(RatInt(base), Pow10(exponent))

\* const pixels = candidate / msPerPixel; const score = Math.abs(pixels - 120)
tickScore(candidate, msPerPixel) ==
  RatAbs(RatSub(RatDiv(candidate, msPerPixel), RatInt(desiredPixelSpacing)))

\* faulty variant: if (score <= bestScore), a later base replaces an equal one
scoreImprovesOrTies(score, bestScore) == ~RatLess(bestScore, score)

\* if (score < bestScore)
scoreImproves(score, bestScore) == RatLess(score, bestScore)

\* the for loop over baseCandidates, from index i on, carrying
\* [best, bestBase, bestScore]
RECURSIVE tickLoop(_, _, _, _)
tickLoop(i, acc, msPerPixel, exponent) ==
  IF i > Len(baseCandidates) THEN acc
  ELSE LET base == baseCandidates[i]
           candidate == tickCandidate(base, exponent)
           score == tickScore(candidate, msPerPixel)
       IN tickLoop(i + 1,
                   IF scoreImproves(score, acc.bestScore)
                   THEN [best |-> candidate, bestBase |-> base, bestScore |-> score]
                   ELSE acc,
                   msPerPixel, exponent)

\* faulty variant: base 2 is subdivided like the others
subdivisionsAlwaysFive(bestBase) == 5

\* const subdivisions = bestBase === 5 ? 5 : bestBase === 2 ? 4 : 5
subdivisionsOf(bestBase) ==
  IF bestBase = 5 THEN 5 ELSE IF bestBase = 2 THEN 4 ELSE 5

\* faulty variant: const minor = best / bestBase
minorByBase(best, bestBase, subdivisions) == RatDiv(best, RatInt(bestBase))

\* const minor = best / subdivisions
minorOf(best, bestBase, subdivisions) == RatDiv(best, RatInt(subdivisions))

chooseTickInterval(msPerPixel) ==
  LET exponent == tickExponent(msPerPixel)
      start == [best |-> tickCandidate(baseCandidates[1], exponent),
                bestBase |-> baseCandidates[1],
                bestScore |-> Infinity]
      acc == tickLoop(1, start, msPerPixel, exponent)
      subdivisions == subdivisionsOf(acc.bestBase)
  IN [major |-> acc.best,
      minor |-> minorOf(acc.best, acc.bestBase, subdivisions),
      subdivisions |-> subdivisions]

(***************************************************************************)
(* Millisecond quantities in two limbs.  A value is                        *)
(*   [neg |-> sign bit, s |-> whole seconds, f |-> 1/SubMs ms below 1 s]   *)
(* with 0 <= f < Limb; neg distinguishes -x from x (and -0 from 0).        *)
(***************************************************************************)
\* grid of the sub-millisecond part: values are multiples of 1/SubMs ms
SubMs == 16

\* number of 1/SubMs ms in one second
Limb == 1000 * SubMs

\* normal form of s seconds plus f grid steps, f and the total of either sign
MsNorm(s, f) ==
  LET ss == s + (f \div Limb)
      ff == f % Limb
  IN IF ss >= 0 THEN [neg |-> FALSE, s |-> ss, f |-> ff]
     ELSE IF ff = 0 THEN [neg |-> TRUE, s |-> 0 - ss, f |-> 0]
     ELSE [neg |-> TRUE, s |-> (0 - ss) - 1, f |-> Limb - ff]

\* the number k (an integer count of milliseconds, k < 2^31)
Ms(k) == MsNorm(k \div 1000, (k % 1000) * SubMs)

\* the number 1000 * sec
MsOfSeconds(sec) == MsNorm(sec, 0)

\* Math.abs(x)
MsAbs(x) == [x EXCEPT !.neg = FALSE]

\* signed limbs of x
MsS(x) == IF x.neg THEN 0 - x.s ELSE x.s

MsF(x) == IF x.neg THEN 0 - x.f ELSE x.f

\* x < y
MsLess(x, y) == MsS(x) < MsS(y) \/ (MsS(x) = MsS(y) /\ MsF(x) < MsF(y))

\* x === y as numbers (-0 === 0)
MsEq(x, y) == MsS(x) = MsS(y) /\ MsF(x) = MsF(y)

\* x - count * u
MsSubTimes(x, count, u) ==
  MsNorm(MsS(x) - count * MsS(u), MsF(x) - count * MsF(u))

\* Math.floor(x / u) for x >= 0 and u a whole number of seconds: the part of
\* x below one second cannot reach the next multiple of u
MsFloorDiv(x, u) == x.s \div u.s

\* Math.round(x) for x >= 0: the nearest integer, halves upward
MsRound(x) == (2 * (x.s * Limb + x.f) + SubMs) \div (2 * SubMs)

(***************************************************************************)
(* Strings.                                                                *)
(***************************************************************************)
\* String.prototype.padStart(length, fill) for a one-character fill
RECURSIVE padStart(_, _, _)
padStart(str, length, fill) ==
  IF Len(str) >= length THEN str ELSE padStart(fill \o str, length, fill)

\* number.toString() for an integer below 1e21
numberToString(number) ==
  IF number < 0 THEN "-" \o ToString(0 - number) ELSE ToString(number)

\* pad (src/script.js 468-470)
pad(number, length) == padStart(numberToString(number), length, "0")

\* Number.prototype.toFixed(digits): the multiple of 10^-digits nearest to
\* |x|, halves upward, written with exactly `digits` decimals, after a "-"
\* when x < 0.  The whole milliseconds are written limb by limb.
toFixed(x, digits) ==
  LET scale == IntPow10(digits)
      below == x.f % SubMs
      n == (2 * below * scale + SubMs) \div (2 * SubMs)
      wholeMs == (x.f \div SubMs) + (n \div scale)
      sec == x.s + (wholeMs \div 1000)
      whole == IF sec > 0
               THEN ToString(sec) \o padStart(ToString(wholeMs % 1000), 3, "0")
               ELSE ToString(wholeMs)
      sign == IF x.neg /\ (x.s > 0 \/ x.f > 0) THEN "-" ELSE ""
  IN IF digits = 0 THEN sign \o whole
     ELSE sign \o whole \o "." \o padStart(ToString(n % scale), digits, "0")

\* Array.prototype.join(sep)
RECURSIVE join(_, _)
join(parts, sep) ==
  IF Len(parts) = 0 THEN ""
  ELSE IF Len(parts) = 1 THEN parts[1]
  ELSE parts[1] \o sep \o join(Tail(parts), sep)

(***************************************************************************)
(* formatDuration (src/script.js 512-541)                                  *)
(***************************************************************************)
MONTH_MS == MsOfSeconds(2629800)     \* 2_629_800_000

YEAR_MS == MsOfSeconds(31557600)     \* 31_557_600_000

ladder ==
  << [label |-> "year",        ms |-> YEAR_MS],
     [label |-> "month",       ms |-> MONTH_MS],
     [label |-> "week",        ms |-> Ms(604800000)],
     [label |-> "day",         ms |-> Ms(86400000)],
     [label |-> "hour",        ms |-> Ms(3600000)],
     [label |-> "minute",      ms |-> Ms(60000)],
     [label |-> "second",      ms |-> Ms(1000)],
     [label |-> "millisecond", ms |-> Ms(1)] >>

\* faulty variant: the ladder stops at the second
unitsWithoutMillisecond == SubSeq(ladder, 1, 7)

\* const units = [...]
units == ladder

\* faulty variant: const absMs = ms
absMsUnchanged(ms) == ms

\* const absMs = Math.abs(ms)
absMsOf(ms) == MsAbs(ms)

\* if (absMs < 1)
isSubMillisecond(absMs) == MsLess(absMs, Ms(1))

\* faulty variant: absMs.toFixed(0)
subMillisecondWhole(absMs) == toFixed(absMs, 0) \o " ms"

\* return `${absMs.toFixed(3)} ms`
subMillisecondText(absMs) == toFixed(absMs, 3) \o " ms"

\* if (remaining >= unit.ms || unit.ms === 1)
unitApplies(remaining, unit) ==
  ~MsLess(remaining, unit.ms) \/ MsEq(unit.ms, Ms(1))

\* const count = unit.ms === 1 ? Math.round(remaining)
\*                             : Math.floor(remaining / unit.ms)
unitCount(remaining, unit) ==
  IF MsEq(unit.ms, Ms(1)) THEN MsRound(remaining)
  ELSE MsFloorDiv(remaining, unit.ms)

\* `${count} ${unit.label}${count !== 1 ? "s" : ""}`
unitTerm(count, unit) ==
  numberToString(count) \o " " \o unit.label \o (IF count # 1 THEN "s" ELSE "")

\* faulty variant: the contribution is not subtracted
remainingKept(remaining, count, unit) == remaining

\* remaining -= count * unit.ms
remainingAfter(remaining, count, unit) == MsSubTimes(remaining, count, unit.ms)

\* faulty variant: if (parts.length === 3) break
enoughPartsAtThree(parts) == Len(parts) = 3

\* if (parts.length === 2) break
enoughParts(parts) == Len(parts) = 2

\* the for loop over units, from index i on, carrying [parts, remaining]
RECURSIVE durationLoop(_, _)
durationLoop(i, acc) ==
  IF i > Len(units) THEN acc
  ELSE LET unit == units[i]
           count == unitCount(acc.remaining, unit)
           next == IF unitApplies(acc.remaining, unit) /\ count > 0
                   THEN [parts |-> Append(acc.parts, unitTerm(count, unit)),
                         remaining |-> remainingAfter(acc.remaining, count, unit)]
                   ELSE acc
       IN IF enoughParts(next.parts) THEN next ELSE durationLoop(i + 1, next)

formatDuration(ms) ==
  LET absMs == absMsOf(ms)
  IN IF isSubMillisecond(absMs) THEN subMillisecondText(absMs)
     ELSE LET acc == durationLoop(1, [parts |-> <<>>, remaining |-> absMs])
              joined == join(acc.parts, " ")
          IN IF joined # "" THEN joined ELSE toFixed(absMs, 0) \o " ms"

(***************************************************************************)
(* Dates.  A Date is its time value, an integer count of milliseconds      *)
(* since 1970-01-01T00:00:00Z, held as [sec |-> whole seconds,             *)
(* milli |-> 0..999].  The local frame is UTC moved by the host's offset.  *)
(***************************************************************************)
WEEKDAYS ==
  <<"Sunday", "Monday", "Tuesday", "Wednesday", "Thursday", "Friday", "Saturday">>

MONTHS ==
  <<"January", "February", "March", "April", "May", "June", "July", "August",
    "September", "October", "November", "December">>

\* the calendar fields of a count of seconds since the epoch (the Date
\* getters: Day, TimeWithinDay, WeekDay, YearFromTime, MonthFromTime,
\* DateFromTime of the proleptic Gregorian calendar)
fieldsOfSeconds(t, milli) ==
  LET days == t \div 86400
      secOfDay == t % 86400
      z == days + 719468
      era == z \div 146097
      doe == z % 146097
      yoe == (doe - (doe \div 1460) + (doe \div 36524) - (doe \div 146096)) \div 365
      doy == doe - (365 * yoe + (yoe \div 4) - (yoe \div 100))
      mp == (5 * doy + 2) \div 153
      m == IF mp < 10 THEN mp + 3 ELSE mp - 9
  IN [year |-> yoe + era * 400 + (IF m <= 2 THEN 1 ELSE 0),
      month |-> m - 1,
      day |-> doy - ((153 * mp + 2) \div 5) + 1,
      hour |-> secOfDay \div 3600,
      minute |-> (secOfDay % 3600) \div 60,
      second |-> secOfDay % 60,
      millisecond |-> milli,
      weekday |-> (days + 4) % 7]

\* getDateParts (src/script.js 438-461)
getDateParts(date, useUTC) ==
  IF useUTC THEN fieldsOfSeconds(date.sec, date.milli)
  ELSE fieldsOfSeconds(date.sec + 60 * host.utcOffsetMin, date.milli)

(***************************************************************************)
(* formatTickLabel (src/script.js 477-505)                                 *)
(***************************************************************************)
\* faulty variant: if (intervalMs <= bound)
intervalAtOrBelow(intervalMs, bound) == ~MsLess(bound, intervalMs)

\* if (intervalMs < bound)
intervalBelow(intervalMs, bound) == MsLess(intervalMs, bound)

formatTickLabel(date, intervalMs, useUTC) ==
  LET parts == getDateParts(date, useUTC)
      hour == parts.hour
      minute == parts.minute
      second == parts.second
      millisecond == parts.millisecond
  IN IF intervalBelow(intervalMs, Ms(1))
     THEN pad(hour, 2) \o ":" \o pad(minute, 2) \o ":" \o pad(second, 2)
          \o "." \o pad(millisecond, 3)
     ELSE IF intervalBelow(intervalMs, Ms(1000))
     THEN pad(hour, 2) \o ":" \o pad(minute, 2) \o ":" \o pad(second, 2)
          \o "." \o pad(millisecond, 3)
     ELSE IF intervalBelow(intervalMs, Ms(60000))
     THEN pad(hour, 2) \o ":" \o pad(minute, 2) \o ":" \o pad(second, 2)
     ELSE IF intervalBelow(intervalMs, Ms(3600000))
     THEN pad(hour, 2) \o ":" \o pad(minute, 2)
     ELSE IF intervalBelow(intervalMs, Ms(86400000))
     THEN SubSeq(WEEKDAYS[parts.weekday + 1], 1, 3) \o " "
          \o pad(hour, 2) \o ":" \o pad(minute, 2)
     ELSE IF intervalBelow(intervalMs, Ms(604800000))
     THEN WEEKDAYS[parts.weekday + 1] \o " " \o pad(hour, 2) \o ":" \o pad(minute, 2)
     ELSE IF intervalBelow(intervalMs, MONTH_MS)
     THEN MONTHS[parts.month + 1] \o " " \o numberToString(parts.day)
     ELSE IF intervalBelow(intervalMs, YEAR_MS)
     THEN MONTHS[parts.month + 1] \o " " \o numberToString(parts.day) \o ", "
          \o numberToString(parts.year)
     ELSE numberToString(parts.year)

(***************************************************************************)
(* formatTickLabel exercised on a family of instants (the regression       *)
(* test's 2024-01-01T12:34:56.789Z, then steps of about forty days),       *)
(* intervals on and next to every threshold, both frames, three hosts.     *)
(***************************************************************************)
MaxInstant == 11

Instants ==
  {[sec |-> 1704112496 + k * 3456789, milli |-> (789 + k * 97) % 1000] :
     k \in 0..MaxInstant}

Thresholds ==
  {Ms(1), Ms(1000), Ms(60000), Ms(3600000), Ms(86400000), Ms(604800000),
   MONTH_MS, YEAR_MS}

Intervals ==
  {MsNorm(t.s, t.f + e) : t \in Thresholds, e \in {-1, 0, 1}}
    \cup {MsNorm(0, SubMs \div 2), Ms(30000), Ms(700000000),
          MsOfSeconds(2 * 2629800), MsOfSeconds(40000000)}

HostOffsets == {-480, 0, 330}

InitLabel ==
  /\ pc = "call"
  /\ fn = "formatTickLabel"
  /\ arg \in {[date |-> d, intervalMs |-> i, useUTC |-> u] :
                d \in Instants, i \in Intervals, u \in BOOLEAN}
  /\ ret = ""
  /\ host \in {[utcOffsetMin |-> o] : o \in HostOffsets}
  /\ NoController

CallFormatTickLabel ==
  /\ pc = "call"
  /\ fn = "formatTickLabel"
  /\ ret' = formatTickLabel(arg.date, arg.intervalMs, arg.useUTC)
  /\ pc' = "done"
  /\ UNCHANGED <<fn, arg, host, state, dom, elapsed>>

NextLabel == CallFormatTickLabel

SpecLabel == InitLabel /\ [][NextLabel]_vars

LabelDone == pc = "done" /\ fn = "formatTickLabel"

(***************************************************************************)
(* The tick planner exercised on every resolution of the family.           *)
(***************************************************************************)
Resolutions == {Rat(r, ResDen) : r \in 1..MaxRes}

InitTick ==
  /\ pc = "call"
  /\ fn = "chooseTickInterval"
  /\ arg \in {[msPerPixel |-> q] : q \in Resolutions}
  /\ ret = ""
  /\ host = [utcOffsetMin |-> 0]
  /\ NoController

CallChooseTickInterval ==
  /\ pc = "call"
  /\ fn = "chooseTickInterval"
  /\ ret' = chooseTickInterval(arg.msPerPixel)
  /\ pc' = "done"
  /\ UNCHANGED <<fn, arg, host, state, dom, elapsed>>

NextTick == CallChooseTickInterval

SpecTick == InitTick /\ [][NextTick]_vars

TickDone == pc = "done" /\ fn = "chooseTickInterval"

(***************************************************************************)
(* formatDuration exercised on a family of durations: up to three ladder   *)
(* units, each taken 0..MaxCount times, moved by less than a millisecond   *)
(* either way, with either sign.                                           *)
(***************************************************************************)
MaxCount == 2

Magnitudes ==
  { MsNorm(a * ladder[i].ms.s + b * ladder[j].ms.s + c * ladder[k].ms.s,
           a * ladder[i].ms.f + b * ladder[j].ms.f + c * ladder[k].ms.f + e) :
      <<i, j, k>> \in {t \in (1..8) \X (1..8) \X (1..8) : t[1] <= t[2] /\ t[2] <= t[3]},
      <<a, b, c>> \in (0..MaxCount) \X (0..MaxCount) \X (0..MaxCount),
      e \in (1 - SubMs)..(SubMs - 1) }

\* the magnitudes of the regression tests that lie on the grid
TestMagnitudes == {Ms(2000), Ms(604800000 + 86400000), Ms(90000)}

Durations ==
  {[x EXCEPT !.neg = sign] :
     x \in {m \in Magnitudes : ~m.neg} \cup TestMagnitudes, sign \in BOOLEAN}

InitDuration ==
  /\ pc = "call"
  /\ fn = "formatDuration"
  /\ arg \in {[ms |-> x] : x \in Durations}
  /\ ret = ""
  /\ host = [utcOffsetMin |-> 0]
  /\ NoController

CallFormatDuration ==
  /\ pc = "call"
  /\ fn = "formatDuration"
  /\ ret' = formatDuration(arg.ms)
  /\ pc' = "done"
  /\ UNCHANGED <<fn, arg, host, state, dom, elapsed>>

NextDuration == CallFormatDuration

SpecDuration == InitDuration /\ [][NextDuration]_vars

DurationDone == pc = "done" /\ fn = "formatDuration"

(***************************************************************************)
(* Yardsticks of the tick-plan claims, written from the arguments and the  *)
(* returned record only.                                                   *)
(***************************************************************************)
\* pixel spacing of the returned major interval: major / resolution
PixelSpacing == RatDiv(ret.major, arg.msPerPixel)

\* distance of the pixel spacing from the 120 target
SpacingError == RatAbs(RatSub(PixelSpacing, RatInt(120)))

\* floor(log10(120 * resolution))
Decade == FloorLog10(Rat(120 * arg.msPerPixel.n, arg.msPerPixel.d))

\* |b * 10^e / resolution - 120| for a base b
Distance(b) ==
  RatAbs(RatSub(RatDiv(RatMul(RatInt(b), Pow10(Decade)), arg.msPerPixel),
                RatInt(120)))

Bases == <<1, 2, 5>>

\* the returned major interval is b * 10^e
MajorHasBase(b) == RatEq(ret.major, RatMul(RatInt(b), Pow10(Decade)))

RatPositive(a) == a.n > 0 /\ a.d > 0

\* C1 as stated: for every resolution > 0 the pixel spacing major / resolution
\* lies within 20 units of the 120 target.
C1_SpacingWithin20 == TickDone => ~RatLess(RatInt(20), SpacingError)

\* C1 amended: for every resolution > 0 the pixel spacing major / resolution
\* lies within 60 units of the 120 target (and is a positive spacing).
C1_SpacingWithin60 ==
  TickDone => /\ ~RatLess(RatInt(60), SpacingError)
              /\ RatPositive(PixelSpacing)

\* a plan whose spacing is more than 50 units away from the target
C1_Witness == TickDone /\ RatLess(RatInt(50), SpacingError)

\* C2: major = b * 10^floor(log10(120 * resolution)) for the b in {1, 2, 5}
\* whose pixel spacing is nearest to 120; among equally near bases the one
\* earliest in the order 1, 2, 5 is taken; and when 120 * resolution is itself
\* a power of ten the plan is that power of ten.
C2_NearestBaseFirstOnTies ==
  TickDone =>
    /\ \E i \in 1..3 :
         /\ MajorHasBase(Bases[i])
         /\ \A j \in 1..3 : ~RatLess(Distance(Bases[j]), Distance(Bases[i]))
         /\ \A j \in 1..3 : j < i => RatLess(Distance(Bases[i]), Distance(Bases[j]))
    /\ RatEq(Rat(120 * arg.msPerPixel.n, arg.msPerPixel.d), Pow10(Decade))
         => MajorHasBase(1)

\* bases 1 and 2 are equally near the target and base 1 was taken
C2_Witness ==
  /\ TickDone
  /\ RatEq(Distance(1), Distance(2))
  /\ MajorHasBase(1)

\* C3: minor * subdivisions = major, minor = major / subdivisions, and both
\* intervals are strictly positive.
C3_MinorComposesMajor ==
  TickDone =>
    /\ RatEq(RatMul(ret.minor, RatInt(ret.subdivisions)), ret.major)
    /\ RatEq(ret.minor, RatDiv(ret.major, RatInt(ret.subdivisions)))
    /\ RatPositive(ret.major)
    /\ RatPositive(ret.minor)

\* a base-1 plan whose minor interval is a fraction of a millisecond
C3_Witness ==
  /\ TickDone
  /\ MajorHasBase(1)
  /\ ret.subdivisions = 5
  /\ RatLess(ret.minor, RatInt(1))

\* C4: base 5 gives 5 subdivisions, base 2 gives 4, base 1 gives 5, so
\* subdivisions is always 4 or 5.
C4_SubdivisionsByBase ==
  TickDone =>
    /\ MajorHasBase(5) => ret.subdivisions = 5
    /\ MajorHasBase(2) => ret.subdivisions = 4
    /\ MajorHasBase(1) => ret.subdivisions = 5
    /\ ret.subdivisions \in {4, 5}

\* a base-2 plan, the only one with 4 subdivisions
C4_Witness == TickDone /\ MajorHasBase(2) /\ ret.subdivisions = 4

(***************************************************************************)
(* Yardsticks of the duration claims: the returned string is read back     *)
(* character by character, and the decomposition is recomputed from the    *)
(* argument with integer quotients and remainders.                         *)
(***************************************************************************)
CharAt(str, i) == SubSeq(str, i, i)

HasChar(str, ch) == \E i \in 1..Len(str) : CharAt(str, i) = ch

\* the words of str, split at single spaces
RECURSIVE WordsFrom(_, _, _)
WordsFrom(str, i, word) ==
  IF i > Len(str) THEN <<word>>
  ELSE IF CharAt(str, i) = " " THEN <<word>> \o WordsFrom(str, i + 1, "")
  ELSE WordsFrom(str, i + 1, word \o CharAt(str, i))

Words(str) == WordsFrom(str, 1, "")

LadderNames ==
  <<"year", "month", "week", "day", "hour", "minute", "second", "millisecond">>

LadderSeconds == <<31557600, 2629800, 604800, 86400, 3600, 60, 1>>

UnitWords ==
  {LadderNames[i] : i \in 1..8} \cup {LadderNames[i] \o "s" : i \in 1..8}

\* how many unit terms the string holds
NumTerms(str) ==
  LET w == Words(str) IN Cardinality({i \in 1..Len(w) : w[i] \in UnitWords})

Digits == <<"0", "1", "2", "3", "4", "5", "6", "7", "8", "9">>

IsDigit(ch) == \E v \in 1..10 : Digits[v] = ch

DigitValue(ch) == (CHOOSE v \in 1..10 : Digits[v] = ch) - 1

\* |ms| >= 1 for the argument of formatDuration
AtLeastOneMs == arg.ms.s > 0 \/ arg.ms.f >= SubMs

\* counts of the whole-second units, largest first, by quotient and remainder
RECURSIVE QuotientsFrom(_, _)
QuotientsFrom(i, secs) ==
  IF i > 7 THEN <<>>
  ELSE <<secs \div LadderSeconds[i]>> \o QuotientsFrom(i + 1, secs % LadderSeconds[i])

\* the count of every ladder unit for the argument; the millisecond count is
\* the part below one second rounded to the nearest integer, halves upward
GreedyCounts ==
  QuotientsFrom(1, arg.ms.s) \o <<(2 * arg.ms.f + SubMs) \div (2 * SubMs)>>

\* ladder positions with a positive count, largest unit first
RECURSIVE PositiveFrom(_, _)
PositiveFrom(i, counts) ==
  IF i > 8 THEN <<>>
  ELSE (IF counts[i] > 0 THEN <<i>> ELSE <<>>) \o PositiveFrom(i + 1, counts)

TermText(i, count) ==
  ToString(count) \o " " \o LadderNames[i] \o (IF count = 1 THEN "" ELSE "s")

\* the first two positive terms of the greedy decomposition, space-joined
GreedyText ==
  LET counts == GreedyCounts
      pos == PositiveFrom(1, counts)
  IN IF Len(pos) = 0 THEN ""
     ELSE IF Len(pos) = 1 THEN TermText(pos[1], counts[pos[1]])
     ELSE TermText(pos[1], counts[pos[1]]) \o " " \o TermText(pos[2], counts[pos[2]])

\* C6: the string returned by formatDuration holds at most two unit terms,
\* whatever smaller remainder the second term leaves.
C6_AtMostTwoTerms == DurationDone => NumTerms(ret) <= 2

\* one week, one day and one hour: the hour is left out
C6_Witness ==
  /\ DurationDone
  /\ arg.ms.s = 604800 + 86400 + 3600
  /\ ret = "1 week 1 day"

\* C7: for |ms| >= 1 the result is the greedy decomposition down the ladder:
\* floor counts (round for the millisecond), each contribution subtracted,
\* only positive counts written, "s" exactly when the count is not 1, terms
\* joined by one space in descending unit order.
C7_GreedyDecomposition == (DurationDone /\ AtLeastOneMs) => ret = GreedyText

\* six weeks: one month, then one week of what the month leaves
C7_Witness ==
  /\ DurationDone
  /\ arg.ms.s = 6 * 604800
  /\ arg.ms.f = 0
  /\ ret = "1 month 1 week"

\* C8: formatDuration(ms) = formatDuration(-ms), and the result holds
\* neither "+" nor "-".
C8_MagnitudeOnly ==
  DurationDone =>
    /\ ret = formatDuration([arg.ms EXCEPT !.neg = ~arg.ms.neg])
    /\ ~HasChar(ret, "+")
    /\ ~HasChar(ret, "-")

\* the regression test's -90000 ms
C8_Witness ==
  /\ DurationDone
  /\ arg.ms = [neg |-> TRUE, s |-> 90, f |-> 0]
  /\ ret = "1 minute 30 seconds"

\* C9: for |ms| >= 1 the result holds at least one unit term and is never
\* the "<rounded ms> ms" fallback.
C9_NoFallback ==
  (DurationDone /\ AtLeastOneMs) =>
    /\ NumTerms(ret) >= 1
    /\ Words(ret)[Len(Words(ret))] # "ms"

\* a duration between 1 ms and 1.5 ms: only the millisecond unit counts
C9_Witness ==
  /\ DurationDone
  /\ arg.ms.s = 0
  /\ arg.ms.f > SubMs
  /\ 2 * arg.ms.f < 3 * SubMs
  /\ ret = "1 millisecond"

\* C10: for |ms| < 1 the result is |ms| rounded to three decimals, written
\* as one digit, a point and exactly three digits, followed by " ms", with no
\* sign and no ladder unit name.
C10_SubMillisecondText ==
  (DurationDone /\ ~AtLeastOneMs) =>
    /\ Len(ret) = 8
    /\ IsDigit(CharAt(ret, 1))
    /\ CharAt(ret, 2) = "."
    /\ \A i \in 3..5 : IsDigit(CharAt(ret, i))
    /\ SubSeq(ret, 6, 8) = " ms"
    /\ LET thousandths == 1000 * DigitValue(CharAt(ret, 1))
                          + 100 * DigitValue(CharAt(ret, 3))
                          + 10 * DigitValue(CharAt(ret, 4))
                          + DigitValue(CharAt(ret, 5))
           gap == thousandths * SubMs - 1000 * arg.ms.f
       IN 2 * gap <= SubMs /\ 0 - SubMs <= 2 * gap
    /\ NumTerms(ret) = 0

\* a negative sub-millisecond duration whose third decimal is rounded
C10_Witness ==
  /\ DurationDone
  /\ ~AtLeastOneMs
  /\ arg.ms.neg
  /\ arg.ms.f > 0
  /\ ret # "0.000 ms"
  /\ (1000 * arg.ms.f) % SubMs # 0

(***************************************************************************)
(* Yardsticks of the tick-label claim: the tier table of the               *)
(* specification, by whole seconds of the interval.                        *)
(***************************************************************************)
\* exclusive upper bounds of the first seven tiers, in seconds: 1000 ms,
\* 60000 ms, 3600000 ms, 86400000 ms, 604800000 ms, 2629800000 ms,
\* 31557600000 ms
TierSeconds == <<1, 60, 3600, 86400, 604800, 2629800, 31557600>>

\* the first tier whose exclusive upper bound exceeds intervalMs (8: none)
Tier == 1 + Cardinality({i \in 1..7 : arg.intervalMs.s >= TierSeconds[i]})

TwoDigits(k) == IF k < 10 THEN "0" \o ToString(k) ELSE ToString(k)

ThreeDigits(k) == IF k < 100 THEN "0" \o TwoDigits(k) ELSE ToString(k)

\* the text of a tier for the fields of the instant in the chosen frame
TierText(t) ==
  LET p == getDateParts(arg.date, arg.useUTC)
      hm == TwoDigits(p.hour) \o ":" \o TwoDigits(p.minute)
      hms == hm \o ":" \o TwoDigits(p.second)
  IN CASE t = 1 -> hms \o "." \o ThreeDigits(p.millisecond)
       [] t = 2 -> hms
       [] t = 3 -> hm
       [] t = 4 -> SubSeq(WEEKDAYS[p.weekday + 1], 1, 3) \o " " \o hm
       [] t = 5 -> WEEKDAYS[p.weekday + 1] \o " " \o hm
       [] t = 6 -> MONTHS[p.month + 1] \o " " \o ToString(p.day)
       [] t = 7 -> MONTHS[p.month + 1] \o " " \o ToString(p.day) \o ", "
                   \o ToString(p.year)
       [] OTHER -> ToString(p.year)

\* C5: formatTickLabel takes the first tier, in ascending order, whose
\* exclusive upper bound exceeds intervalMs; an interval equal to a bound
\* falls into the next coarser tier; the tier depends on intervalMs alone,
\* whatever the instant and the frame.
C5_TierByIntervalAlone == LabelDone => ret = TierText(Tier)

\* an interval of exactly 60000 ms is labelled HH:MM, without seconds
C5_Witness ==
  /\ LabelDone
  /\ arg.intervalMs = [neg |-> FALSE, s |-> 60, f |-> 0]
  /\ ~arg.useUTC
  /\ host.utcOffsetMin # 0
  /\ Len(ret) = 5
  /\ CharAt(ret, 3) = ":"

(***************************************************************************)
(* describeOffset (src/script.js 548-554).  Both arguments are millisecond *)
(* values in two limbs.                                                    *)
(***************************************************************************)
\* x * k for an integer k
MsTimes(x, k) == MsNorm(MsS(x) * k, MsF(x) * k)

\* faulty variant: an offset of exactly two pixels still counts as present
isPresentInclusive(offsetMs, renderMsPerPixel) ==
  ~MsLess(MsTimes(renderMsPerPixel, 2), MsAbs(offsetMs))

\* Math.abs(offsetMs) < renderMsPerPixel * 2
isPresent(offsetMs, renderMsPerPixel) ==
  MsLess(MsAbs(offsetMs), MsTimes(renderMsPerPixel, 2))

\* faulty variant: the sign test reversed
signOfReversed(offsetMs) == IF MsLess(offsetMs, Ms(0)) THEN "+" ELSE "-"

\* offsetMs > 0 ? "+" : "-"
signOf(offsetMs) == IF MsLess(Ms(0), offsetMs) THEN "+" ELSE "-"

describeOffset(offsetMs, renderMsPerPixel) ==
  IF isPresent(offsetMs, renderMsPerPixel)
  THEN "Present"
  ELSE "Exploring " \o signOf(offsetMs) \o formatDuration(offsetMs)

(***************************************************************************)
(* SpecOffset: describeOffset called once on an offset and a resolution.   *)
(***************************************************************************)
\* offsets reach MaxPixels pixels' worth of time on either side of now
MaxPixels == 4

\* resolutions are k / SubMs ms per pixel for k in 1..MaxResSteps, and the
\* resolutions of the test-suite
MaxResSteps == 5

OffsetResolutions ==
  {MsNorm(0, k) : k \in 1..MaxResSteps} \cup {Ms(10), Ms(1000)}

\* every whole number of pixels up to MaxPixels, and the two values of the
\* grid on either side of it, in both directions
OffsetsAround(res) ==
  {MsNorm(sign * j * MsS(res), sign * (j * MsF(res) + e)) :
     sign \in {-1, 1}, j \in 0..MaxPixels, e \in -1..1}

\* describeOffset(50, 10) and describeOffset(-3_600_000, 1_000)
TestOffsets ==
  {[offsetMs |-> Ms(50), renderMsPerPixel |-> Ms(10)],
   [offsetMs |-> MsNorm(-3600, 0), renderMsPerPixel |-> Ms(1000)]}

InitOffset ==
  /\ pc = "call"
  /\ fn = "describeOffset"
  /\ arg \in UNION {{[offsetMs |-> o, renderMsPerPixel |-> r] :
                         o \in OffsetsAround(r)} : r \in OffsetResolutions}
             \cup TestOffsets
  /\ ret = ""
  /\ host = [utcOffsetMin |-> 0]
  /\ NoController

CallDescribeOffset ==
  /\ pc = "call"
  /\ fn = "describeOffset"
  /\ ret' = describeOffset(arg.offsetMs, arg.renderMsPerPixel)
  /\ pc' = "done"
  /\ UNCHANGED <<fn, arg, host, state, dom, elapsed>>

NextOffset == CallDescribeOffset

SpecOffset == InitOffset /\ [][NextOffset]_vars

OffsetDone == pc = "done" /\ fn = "describeOffset"

(***************************************************************************)
(* Claims about describeOffset.  The yardsticks count the grid steps of a  *)
(* value directly (the inputs stay far below 2^31 steps).                  *)
(***************************************************************************)
\* |x| in steps of 1/SubMs ms
Magnitude(x) == x.s * Limb + x.f

\* the offset is strictly less than two pixels' worth of time away from now
WithinTwoPixels == Magnitude(arg.offsetMs) < 2 * Magnitude(arg.renderMsPerPixel)

\* C11: describeOffset returns "Present" exactly when |offsetMs| is strictly
\* less than twice the resolution; an offset of exactly two pixels' worth
\* is not the present.
C11_PresentBelowTwoPixels == OffsetDone => (ret = "Present" <=> WithinTwoPixels)

\* an offset of exactly two pixels' worth of time, narrated as exploring
C11_Witness ==
  /\ OffsetDone
  /\ Magnitude(arg.offsetMs) = 2 * Magnitude(arg.renderMsPerPixel)
  /\ ret # "Present"

\* the direction of the offset: "+" ahead of now, "-" otherwise
Direction == IF ~arg.offsetMs.neg /\ Magnitude(arg.offsetMs) > 0 THEN "+" ELSE "-"

\* C12: at two pixels' worth or more, describeOffset returns "Exploring "
\* followed by the sign of the offset ("+" exactly when offsetMs > 0, "-"
\* otherwise) and by formatDuration(offsetMs).
C12_ExploringSignAndDuration ==
  (OffsetDone /\ ~WithinTwoPixels) =>
     /\ SubSeq(ret, 1, 10) = "Exploring "
     /\ CharAt(ret, 11) = Direction
     /\ SubSeq(ret, 12, Len(ret)) = formatDuration(arg.offsetMs)

\* one hour into the past at one second per pixel
C12_Witness ==
  /\ OffsetDone
  /\ arg.offsetMs.neg
  /\ ret = "Exploring -1 hour"

(***************************************************************************)
(* msPerPixelFromSlider (src/script.js 389-391).  A zoom level is held as  *)
(* an integer count of tenths, the grid the wheel (0.1) and the arrow keys *)
(* (0.2) move it on.  Math.pow(10, x) is the power of ten to three         *)
(* significant digits, exact at whole x; like a double it reaches Infinity *)
(* above 10^308.25 and is rounded to zero below 10^-323.6.                 *)
(***************************************************************************)
\* tenths in one unit of the zoom level
SliderDen == 10

\* 100 * 10^(j/10) for j = 0..9, to the nearest integer
tenthRoots == <<100, 126, 158, 200, 251, 316, 398, 501, 631, 794>>

\* the least zoom level (in tenths) whose power of ten is Infinity
overflowsFrom == 3083

\* the greatest zoom level (in tenths) whose power of ten is rounded to 0
underflowsUpTo == 0 - 3237

\* Math.pow(10, x) for x = tenths / 10
MathPow10(tenths) ==
  IF tenths >= overflowsFrom THEN Infinity
  ELSE IF tenths <= underflowsUpTo THEN RatInt(0)
  ELSE RatMul(Rat(tenthRoots[(tenths % SliderDen) + 1], 100),
              Pow10(tenths \div SliderDen))

\* faulty variant: the exponent negated
msPerPixelFromSliderNegated(value) == MathPow10(0 - value)

msPerPixelFromSlider(value) == MathPow10(value)

(***************************************************************************)
(* SpecScale: msPerPixelFromSlider called once on a zoom level.            *)
(***************************************************************************)
\* zoom levels of the family run from -MaxZoom to MaxZoom in tenths
MaxZoom == 3

ZoomLevels == (0 - MaxZoom * SliderDen)..(MaxZoom * SliderDen)

\* zoom levels beyond the range of a double
ExtremeZoomLevels == {0 - 5000, 0 - 4000, 4000, 5000}

InitScale ==
  /\ pc = "call"
  /\ fn = "msPerPixelFromSlider"
  /\ arg \in {[value |-> v] : v \in ZoomLevels \cup ExtremeZoomLevels}
  /\ ret = ""
  /\ host = [utcOffsetMin |-> 0]
  /\ NoController

CallMsPerPixelFromSlider ==
  /\ pc = "call"
  /\ fn = "msPerPixelFromSlider"
  /\ ret' = msPerPixelFromSlider(arg.value)
  /\ pc' = "done"
  /\ UNCHANGED <<fn, arg, host, state, dom, elapsed>>

NextScale == CallMsPerPixelFromSlider

SpecScale == InitScale /\ [][NextScale]_vars

ScaleDone == pc = "done" /\ fn = "msPerPixelFromSlider"

(***************************************************************************)
(* Claims about msPerPixelFromSlider.                                      *)
(***************************************************************************)
\* the result is the exact power of ten 10^n
IsExactPowerOfTen(q, n) ==
  IF n >= 0 THEN q.n = q.d * IntPow10(n) ELSE q.n * IntPow10(0 - n) = q.d

\* w is the level of the set next below v
NextBelow(w, v, levels) == w < v /\ \A u \in levels : ~(w < u /\ u < v)

\* positive, above the result at the next lower level of the set, exact at
\* whole levels
PositiveIncreasingExact(levels) ==
  /\ RatPositive(ret)
  /\ \A w \in levels : NextBelow(w, arg.value, levels)
                          => RatLess(msPerPixelFromSlider(w), ret)
  /\ arg.value % SliderDen = 0
       => IsExactPowerOfTen(ret, arg.value \div SliderDen)

\* C13 as stated: the result is strictly positive for every zoom level,
\* strictly increasing in the zoom level, and the exact power of ten at
\* every integer zoom level.
C13_PositiveIncreasingEverywhere ==
  ScaleDone => PositiveIncreasingExact(ZoomLevels \cup ExtremeZoomLevels)

\* C13: for zoom levels in the range of the family the result is strictly
\* positive, strictly increasing from one tenth to the next, and the exact
\* power of ten at every integer zoom level.
C13_PositiveIncreasingExact ==
  (ScaleDone /\ arg.value \in ZoomLevels) => PositiveIncreasingExact(ZoomLevels)

\* msPerPixelFromSlider(-2) = 0.01
C13_Witness ==
  /\ ScaleDone
  /\ arg.value = 0 - 2 * SliderDen
  /\ RatEq(ret, Rat(1, 100))

(***************************************************************************)
(* clamp (src/script.js 398-400).                                          *)
(***************************************************************************)
MathMax(a, b) == IF a > b THEN a ELSE b

MathMin(a, b) == IF a < b THEN a ELSE b

\* faulty variant: the lower bound is never applied
clampUpperOnly(value, min, max) == MathMin(value, max)

clamp(value, min, max) == MathMin(MathMax(value, min), max)

(***************************************************************************)
(* SpecClamp: clamp called once on a value and two bounds.                 *)
(***************************************************************************)
\* values and bounds run from -MaxClamp to MaxClamp
MaxClamp == 3

\* clamp(5, 0, 10), clamp(-5, 0, 10), clamp(15, 0, 10)
TestClamps == {[value |-> v, min |-> 0, max |-> 10] : v \in {5, 0 - 5, 15}}

InitClamp ==
  /\ pc = "call"
  /\ fn = "clamp"
  /\ arg \in {[value |-> v, min |-> lo, max |-> hi] :
                v \in (0 - MaxClamp)..MaxClamp,
                lo \in (0 - MaxClamp)..MaxClamp,
                hi \in (0 - MaxClamp)..MaxClamp}
             \cup TestClamps
  /\ ret = ""
  /\ host = [utcOffsetMin |-> 0]
  /\ NoController

CallClamp ==
  /\ pc = "call"
  /\ fn = "clamp"
  /\ ret' = clamp(arg.value, arg.min, arg.max)
  /\ pc' = "done"
  /\ UNCHANGED <<fn, arg, host, state, dom, elapsed>>

NextClamp == CallClamp

SpecClamp == InitClamp /\ [][NextClamp]_vars

ClampDone == pc = "done" /\ fn = "clamp"

\* C14: clamp returns min(max(value, min), max); for min <= max the result
\* lies in [min, max], is value itself when value is in range, min when
\* value < min and max when value > max.
C14_ClampWithinBounds ==
  ClampDone =>
     /\ \E inner \in {arg.value, arg.min} :
          /\ inner >= arg.value /\ inner >= arg.min
          /\ ret \in {inner, arg.max}
          /\ ret <= inner /\ ret <= arg.max
     /\ arg.min <= arg.max =>
          /\ arg.min <= ret /\ ret <= arg.max
          /\ (arg.min <= arg.value /\ arg.value <= arg.max) => ret = arg.value
          /\ arg.value < arg.min => ret = arg.min
          /\ arg.value > arg.max => ret = arg.max

\* a value below the lower bound comes back as the lower bound
C14_Witness ==
  /\ ClampDone
  /\ arg.value < arg.min
  /\ arg.min < arg.max
  /\ ret = arg.min

(***************************************************************************)
(* formatCenterTimestamp (src/script.js 561-570).                          *)
(***************************************************************************)
\* the separator of the headline, U+2022 BULLET, written as an asterisk
bullet == "*"

\* faulty variant: the milliseconds padded to two digits like the rest
centerTimeShortMillis(parts) ==
  pad(parts.hour, 2) \o ":" \o pad(parts.minute, 2) \o ":"
    \o pad(parts.second, 2) \o "." \o pad(parts.millisecond, 2)

\* const time
centerTime(parts) ==
  pad(parts.hour, 2) \o ":" \o pad(parts.minute, 2) \o ":"
    \o pad(parts.second, 2) \o "." \o pad(parts.millisecond, 3)

formatCenterTimestamp(date, useUTC) ==
  LET parts == getDateParts(date, useUTC)
      weekday == WEEKDAYS[parts.weekday + 1]
      month == MONTHS[parts.month + 1]
      time == centerTime(parts)
  IN weekday \o " " \o bullet \o " " \o month \o " "
       \o numberToString(parts.day) \o ", " \o numberToString(parts.year)
       \o " " \o bullet \o " " \o time

(***************************************************************************)
(* SpecCenter: formatCenterTimestamp called once on an instant, in either  *)
(* frame, on a host of some UTC offset.                                    *)
(***************************************************************************)
InitCenter ==
  /\ pc = "call"
  /\ fn = "formatCenterTimestamp"
  /\ arg \in {[date |-> d, useUTC |-> u] : d \in Instants, u \in BOOLEAN}
  /\ ret = ""
  /\ host \in {[utcOffsetMin |-> o] : o \in HostOffsets}
  /\ NoController

CallFormatCenterTimestamp ==
  /\ pc = "call"
  /\ fn = "formatCenterTimestamp"
  /\ ret' = formatCenterTimestamp(arg.date, arg.useUTC)
  /\ pc' = "done"
  /\ UNCHANGED <<fn, arg, host, state, dom, elapsed>>

NextCenter == CallFormatCenterTimestamp

SpecCenter == InitCenter /\ [][NextCenter]_vars

CenterDone == pc = "done" /\ fn = "formatCenterTimestamp"

\* the headline read back: its last twelve characters, and what precedes them
ClockOf(str) == SubSeq(str, Len(str) - 11, Len(str))

DateOf(str) == SubSeq(str, 1, Len(str) - 12)

\* HH:MM:SS.mmm, digits and separators in their places
IsFullClock(str) ==
  /\ Len(str) = 12
  /\ \A i \in {1, 2, 4, 5, 7, 8, 10, 11, 12} : IsDigit(CharAt(str, i))
  /\ CharAt(str, 3) = ":" /\ CharAt(str, 6) = ":" /\ CharAt(str, 9) = "."

\* C18: formatCenterTimestamp returns "<full weekday> * <full month> <day>,
\* <year> * HH:MM:SS.mmm" (the asterisk stands for the bullet), hour, minute
\* and second on two digits and the milliseconds on three, in the frame
\* useUTC selects; nothing but the instant and useUTC enters it.
C18_FullPrecisionHeadline ==
  CenterDone =>
     LET p == getDateParts(arg.date, arg.useUTC)
     IN /\ IsFullClock(ClockOf(ret))
        /\ ClockOf(ret) = TwoDigits(p.hour) \o ":" \o TwoDigits(p.minute)
                            \o ":" \o TwoDigits(p.second) \o "."
                            \o ThreeDigits(p.millisecond)
        /\ DateOf(ret) = WEEKDAYS[p.weekday + 1] \o " * " \o MONTHS[p.month + 1]
                           \o " " \o ToString(p.day) \o ", " \o ToString(p.year)
                           \o " * "

\* the sample of the test-suite, 2024-01-01T12:34:56.789Z in UTC
C18_Witness ==
  /\ CenterDone
  /\ arg.useUTC
  /\ ret = "Monday * January 1, 2024 * 12:34:56.789"

(***************************************************************************)
(* getTimezoneLabel (src/script.js 577-585).  The host is asked for the    *)
(* parts of the current date with a short time zone name; host.timeZoneName *)
(* is the sequence of the values of its parts of type "timeZoneName"       *)
(* (empty when the host supplies none).                                    *)
(***************************************************************************)
\* faulty variant: the abbreviation is dropped
localLabelPlain(tz) == "Local"

\* tz ? `Local (${tz.value})` : "Local"
localLabel(tz) == IF tz # <<>> THEN "Local (" \o tz[1] \o ")" ELSE "Local"

getTimezoneLabel(useUTC) ==
  IF useUTC THEN "UTC" ELSE localLabel(host.timeZoneName)

(***************************************************************************)
(* SpecZone: getTimezoneLabel called once, on hosts that name their zone   *)
(* in various ways or not at all.                                          *)
(***************************************************************************)
HostZoneNames ==
  {<<>>, <<"">>, <<"UTC">>, <<"GMT">>, <<"PST">>, <<"PDT">>, <<"EST">>,
   <<"CET">>, <<"GMT+5:30">>, <<"GMT-8">>}

Hosts ==
  {[utcOffsetMin |-> o, timeZoneName |-> z] :
     o \in HostOffsets, z \in HostZoneNames}

InitZone ==
  /\ pc = "call"
  /\ fn = "getTimezoneLabel"
  /\ arg \in {[useUTC |-> u] : u \in BOOLEAN}
  /\ ret = ""
  /\ host \in Hosts
  /\ NoController

CallGetTimezoneLabel ==
  /\ pc = "call"
  /\ fn = "getTimezoneLabel"
  /\ ret' = getTimezoneLabel(arg.useUTC)
  /\ pc' = "done"
  /\ UNCHANGED <<fn, arg, host, state, dom, elapsed>>

NextZone == CallGetTimezoneLabel

SpecZone == InitZone /\ [][NextZone]_vars

ZoneDone == pc = "done" /\ fn = "getTimezoneLabel"

\* C19: getTimezoneLabel(true) is exactly "UTC"; getTimezoneLabel(false) is
\* "Local (<abbreviation>)" when the host supplies a short time zone name
\* and plain "Local" otherwise, so it starts with "Local" and is never "UTC".
C19_UtcOrLocalLabel ==
  ZoneDone =>
     /\ arg.useUTC => ret = "UTC"
     /\ ~arg.useUTC =>
          /\ Len(ret) >= 5
          /\ SubSeq(ret, 1, 5) = "Local"
          /\ ret # "UTC"
          /\ Len(host.timeZoneName) = 0 => ret = "Local"
          /\ Len(host.timeZoneName) > 0 =>
               /\ Len(ret) = 8 + Len(host.timeZoneName[1])
               /\ SubSeq(ret, 1, 7) = "Local ("
               /\ SubSeq(ret, 8, Len(ret) - 1) = host.timeZoneName[1]
               /\ CharAt(ret, Len(ret)) = ")"

\* a host whose zone is itself called UTC, asked for the local label
C19_Witness ==
  /\ ZoneDone
  /\ ~arg.useUTC
  /\ host.timeZoneName = <<"UTC">>
  /\ ret = "Local (UTC)"

(***************************************************************************)
(* The controller (src/script.js 15-235): the state object and the         *)
(* handlers of the input events.                                           *)
(*                                                                         *)
(* Numbers of the controller.  A zoom level is a count of tenths; a        *)
(* resolution and an offset are counts of 1/SubMs ms, every result being   *)
(* rounded to that grid as a double rounds to its own.  Pointers move on   *)
(* one horizontal line (clientY = 0) at whole pixels, so that the distance *)
(* between two of them is a whole number.  Of the two clocks the handlers  *)
(* read, only what they compare is kept: whether less than 350 ms have     *)
(* passed since state.lastTapTime ("short") and whether more than 4000 ms  *)
(* have passed since state.lastInteraction ("long").  The canvas size, the *)
(* device pixel ratio, the font and the pointer capture do not enter any   *)
(* handler's decisions and are left out.  ret remembers the last handler   *)
(* when it has just brought an exploring view back to now, and is ""       *)
(* otherwise.  Of the page, dom keeps the slider's value, the texts        *)
(* updateControls writes and the descriptor in focusValue.                 *)
(***************************************************************************)
\* zoomSlider.min, zoomSlider.max and the position the page gives the slider
\* at first, in tenths
zoomSliderMin == 0

zoomSliderMax == 2

zoomSliderStart == 1

\* the pointers of the model and the pixels (clientX) they visit
PointerIds == {1, 2}

PointerXs == {0, 1, 2}

\* the offsets the model follows lie within MaxDrift pixels' worth of time
\* of now or of one arrow-key step (90 pixels) to either side
MaxDrift == 1

KeySteps == {0 - 1, 0, 1}

\* the double nearest to q on the grid of 1/SubMs ms
toGrid(q) == (2 * q.n * SubMs + q.d) \div (2 * q.d)

RECURSIVE IntPow(_, _)
IntPow(b, e) == IF e = 0 THEN 1 ELSE b * IntPow(b, e - 1)

\* Math.log10(n / d) in tenths, taken down to the tenth below
MathLog10(n, d) == FloorLog10(Rat(IntPow(n, SliderDen), IntPow(d, SliderDen)))

\* Number.prototype.toFixed(digits) of a zoom level, digits >= 1
sliderToFixed(value, digits) ==
  LET magnitude == IF value < 0 THEN 0 - value ELSE value
  IN (IF value < 0 THEN "-" ELSE "")
       \o ToString(magnitude \div SliderDen) \o "."
       \o ToString(magnitude % SliderDen) \o padStart("", digits - 1, "0")

\* the number a string of decimal digits denotes
RECURSIVE digitsValue(_)
digitsValue(str) ==
  IF Len(str) = 0 THEN 0
  ELSE 10 * digitsValue(SubSeq(str, 1, Len(str) - 1))
         + DigitValue(CharAt(str, Len(str)))

\* parseFloat(str) for a decimal numeral, as a zoom level
parseFloat(str) ==
  LET neg == CharAt(str, 1) = "-"
      numeral == IF neg THEN SubSeq(str, 2, Len(str)) ELSE str
      dots == {i \in 1..Len(numeral) : CharAt(numeral, i) = "."}
      dot == IF dots = {} THEN Len(numeral) + 1
             ELSE CHOOSE i \in dots : \A j \in dots : i <= j
      whole == digitsValue(SubSeq(numeral, 1, dot - 1))
      tenth == IF dot < Len(numeral)
               THEN DigitValue(CharAt(numeral, dot + 1)) ELSE 0
      magnitude == whole * SliderDen + tenth
  IN IF neg THEN 0 - magnitude ELSE magnitude

\* Math.abs of a whole number
MathAbs(x) == IF x < 0 THEN 0 - x ELSE x

\* state.activePointers: per pointer id, <<>> or <<[x |-> clientX, y |-> clientY]>>
activeIds(pointers) == {id \in PointerIds : pointers[id] # <<>>}

size(pointers) == Cardinality(activeIds(pointers))

\* distance (src/script.js 144-148): Math.hypot(dx, dy) with dy = 0
distance(a, b) == MathAbs(a.x - b.x)

\* distance(points[0], points[1]) of the two active pointers
pointsDistance(pointers) ==
  LET i == CHOOSE i \in activeIds(pointers) : TRUE
      j == CHOOSE j \in activeIds(pointers) \ {i} : TRUE
  IN distance(pointers[i][1], pointers[j][1])

\* scheduleInteractionUpdate (src/script.js 63-65)
scheduleInteractionUpdate == [elapsed EXCEPT !.sinceInteraction = "short"]

\* the texts updateControls (src/script.js 53-59) writes for a frame
updateControls(useUTC) ==
  [dom EXCEPT !.ariaPressed = IF useUTC THEN "true" ELSE "false",
              !.toggleText = IF useUTC THEN "Use Local Time"
                             ELSE "Use Coordinated Universal Time",
              !.timezoneValue = getTimezoneLabel(useUTC)]

\* Math.abs(state.targetOffset) > state.renderMsPerPixel * 4
isExploring(targetOffset, renderMsPerPixel) ==
  MathAbs(targetOffset) > renderMsPerPixel * 4

\* faulty variant: the view is moved back but still counts as exploring
resetToNowStillExploring(st) == [st EXCEPT !.targetOffset = 0]

\* state.targetOffset = 0; state.exploring = false (src/script.js 75-76,
\* 87-88, 99-100 and 215-216)
resetToNow(st) == [st EXCEPT !.targetOffset = 0, !.exploring = FALSE]

\* what ret remembers of a handler that has run the two statements above
returned(handler) ==
  IF state.targetOffset # 0 /\ state.exploring THEN handler ELSE ""

\* the offsets the model follows
InReach(targetOffset) ==
  \E k \in KeySteps :
     MathAbs(targetOffset - k * 90 * state.renderMsPerPixel)
       <= MaxDrift * state.renderMsPerPixel

\* faulty variant: the new zoom level is stored as computed, unclamped
adjustSliderUnclamped(delta) ==
  LET newSliderValue == state.sliderValue + delta
  IN [state |-> [state EXCEPT
                   !.sliderValue = newSliderValue,
                   !.targetMsPerPixel = toGrid(msPerPixelFromSlider(newSliderValue))],
      dom |-> [dom EXCEPT !.zoomSliderValue = sliderToFixed(newSliderValue, 2)]]

\* adjustSlider (src/script.js 226-235): the state and the page it leaves
adjustSlider(delta) ==
  LET newSliderValue == clamp(state.sliderValue + delta, zoomSliderMin, zoomSliderMax)
  IN [state |-> [state EXCEPT
                   !.sliderValue = newSliderValue,
                   !.targetMsPerPixel = toGrid(msPerPixelFromSlider(newSliderValue))],
      dom |-> [dom EXCEPT !.zoomSliderValue = sliderToFixed(newSliderValue, 2)]]

(***************************************************************************)
(* SpecView: the controller from its construction, handling input events   *)
(* in any order.                                                           *)
(***************************************************************************)
\* zoomSlider.value once the user has picked a zoom level
SliderTexts == {sliderToFixed(v, 2) : v \in zoomSliderMin..zoomSliderMax}

ViewHost == [utcOffsetMin |-> 0 - 480, timeZoneName |-> <<"PST">>]

Keys == {"ArrowLeft", "ArrowRight", "ArrowUp", "ArrowDown", "0", "Escape", "a"}

\* src/script.js 15-41, 50, 61: the controller once the script has run, no
\* frame drawn yet
Constructed ==
  /\ pc = "run"
  /\ arg = <<>>
  /\ ret = ""
  /\ host = ViewHost
  /\ dom = [zoomSliderValue |-> sliderToFixed(zoomSliderStart, 2),
            ariaPressed |-> "false",
            toggleText |-> "Use Coordinated Universal Time",
            timezoneValue |-> getTimezoneLabel(FALSE),
            focusValue |-> ""]
  /\ state = [sliderValue |-> parseFloat(dom.zoomSliderValue),
              targetMsPerPixel |->
                toGrid(msPerPixelFromSlider(parseFloat(dom.zoomSliderValue))),
              renderMsPerPixel |->
                toGrid(msPerPixelFromSlider(parseFloat(dom.zoomSliderValue))),
              targetOffset |-> 0,
              renderOffset |-> 0,
              useUTC |-> FALSE,
              exploring |-> FALSE,
              activePointers |-> [id \in PointerIds |-> <<>>],
              isDragging |-> FALSE,
              lastDragX |-> 0,
              pinchStartDistance |-> 0,
              pinchStartSliderValue |-> parseFloat(dom.zoomSliderValue)]
  /\ elapsed \in {[sinceTap |-> t, sinceInteraction |-> "short"] :
                    t \in {"short", "long"}}

\* the controller with its input events alone
InitView == fn = "controller" /\ Constructed

\* zoomSlider "input" (src/script.js 67-72): the user sets the slider to text
SliderInput(text) ==
  LET value == parseFloat(text)
  IN /\ pc = "run"
     /\ dom' = [dom EXCEPT !.zoomSliderValue = text]
     /\ state' = [state EXCEPT
                    !.sliderValue = value,
                    !.targetMsPerPixel = toGrid(msPerPixelFromSlider(value))]
     /\ elapsed' = scheduleInteractionUpdate
     /\ ret' = ""
     /\ UNCHANGED <<pc, fn, arg, host>>

\* resetButton "click" (src/script.js 74-78)
ResetButtonClick ==
  /\ pc = "run"
  /\ state' = resetToNow(state)
  /\ elapsed' = scheduleInteractionUpdate
  /\ ret' = returned("click")
  /\ UNCHANGED <<pc, fn, arg, host, dom>>

\* faulty variant: switching the frame also drops the panned offset
toggleTimezoneAndReturn(st) ==
  [st EXCEPT !.useUTC = ~st.useUTC, !.targetOffset = 0]

\* state.useUTC = !state.useUTC (src/script.js 81)
toggleTimezone(st) == [st EXCEPT !.useUTC = ~st.useUTC]

\* timezoneToggle "click" (src/script.js 80-84)
TimezoneToggleClick ==
  /\ pc = "run"
  /\ state' = toggleTimezone(state)
  /\ dom' = updateControls(state'.useUTC)
  /\ elapsed' = scheduleInteractionUpdate
  /\ ret' = ""
  /\ UNCHANGED <<pc, fn, arg, host>>

\* canvas "dblclick" (src/script.js 86-90)
CanvasDblClick ==
  /\ pc = "run"
  /\ state' = resetToNow(state)
  /\ elapsed' = scheduleInteractionUpdate
  /\ ret' = returned("dblclick")
  /\ UNCHANGED <<pc, fn, arg, host, dom>>

\* canvas "pointerdown" (src/script.js 92-112)
PointerDown(pointerId, clientX) ==
  LET pointers == [state.activePointers EXCEPT
                     ![pointerId] = <<[x |-> clientX, y |-> 0]>>]
      doubleTap == elapsed.sinceTap = "short"
      tapped == IF doubleTap THEN resetToNow(state) ELSE state
  IN /\ pc = "run"
     /\ state' = [tapped EXCEPT
          !.activePointers = pointers,
          !.isDragging = IF size(pointers) = 1 THEN TRUE ELSE @,
          !.lastDragX = IF size(pointers) = 1 THEN clientX ELSE @,
          !.pinchStartDistance =
             IF size(pointers) = 2 THEN pointsDistance(pointers) ELSE @,
          !.pinchStartSliderValue =
             IF size(pointers) = 2 THEN state.sliderValue ELSE @]
     /\ elapsed' = [sinceTap |-> "short", sinceInteraction |-> "short"]
     /\ ret' = IF doubleTap THEN returned("pointerdown") ELSE ""
     /\ UNCHANGED <<pc, fn, arg, host, dom>>

\* faulty variant: state.targetOffset += deltaX * state.renderMsPerPixel
draggedForwards(moved, clientX) ==
  LET deltaX == clientX - moved.lastDragX
      targetOffset == moved.targetOffset + deltaX * moved.renderMsPerPixel
  IN [moved EXCEPT
        !.lastDragX = clientX,
        !.targetOffset = targetOffset,
        !.exploring = isExploring(targetOffset, moved.renderMsPerPixel)]

\* the drag branch of "pointermove" (src/script.js 118-122)
dragged(moved, clientX) ==
  LET deltaX == clientX - moved.lastDragX
      targetOffset == moved.targetOffset - deltaX * moved.renderMsPerPixel
  IN [moved EXCEPT
        !.lastDragX = clientX,
        !.targetOffset = targetOffset,
        !.exploring = isExploring(targetOffset, moved.renderMsPerPixel)]

\* the pinch branch of "pointermove" (src/script.js 123-139), entered with
\* both distances above zero; their ratio is then finite and above zero
pinched(moved) ==
  LET newDistance == pointsDistance(moved.activePointers)
      newSliderValue ==
        clamp(moved.pinchStartSliderValue
                - MathLog10(newDistance, moved.pinchStartDistance),
              zoomSliderMin, zoomSliderMax)
  IN [moved EXCEPT
        !.sliderValue = newSliderValue,
        !.targetMsPerPixel = toGrid(msPerPixelFromSlider(newSliderValue))]

\* canvas "pointermove" (src/script.js 114-142)
PointerMove(pointerId, clientX) ==
  LET moved == [state EXCEPT
                  !.activePointers[pointerId] = <<[x |-> clientX, y |-> 0]>>]
      dragging == size(moved.activePointers) = 1 /\ state.isDragging
      pinching == /\ size(moved.activePointers) = 2
                  /\ state.pinchStartDistance > 0
                  /\ pointsDistance(moved.activePointers) > 0
  IN /\ pc = "run"
     /\ IF state.activePointers[pointerId] = <<>>
        THEN UNCHANGED <<state, dom, elapsed>>
        ELSE /\ state' = IF dragging THEN dragged(moved, clientX)
                         ELSE IF pinching THEN pinched(moved)
                         ELSE moved
             /\ dom' = IF pinching
                       THEN [dom EXCEPT !.zoomSliderValue =
                                          sliderToFixed(state'.sliderValue, 2)]
                       ELSE dom
             /\ elapsed' = scheduleInteractionUpdate
             /\ InReach(state'.targetOffset)
     /\ ret' = ""
     /\ UNCHANGED <<pc, fn, arg, host>>

\* faulty variant: the pinch distance is cleared only with the last pointer
EndPointerKeepsPinch(pointerId) ==
  LET pointers == [state.activePointers EXCEPT ![pointerId] = <<>>]
      remaining == pointers[CHOOSE id \in activeIds(pointers) : TRUE][1]
  IN /\ pc = "run"
     /\ state' = [state EXCEPT
          !.activePointers = pointers,
          !.pinchStartDistance = IF size(pointers) < 1 THEN 0 ELSE @,
          !.isDragging = IF size(pointers) = 0 THEN FALSE
                         ELSE IF size(pointers) = 1 THEN TRUE ELSE @,
          !.lastDragX = IF size(pointers) = 1 THEN remaining.x ELSE @]
     /\ ret' = ""
     /\ UNCHANGED <<pc, fn, arg, host, dom, elapsed>>

\* endPointer (src/script.js 150-167), the handler of "pointerup",
\* "pointercancel" and "pointerout"
EndPointer(pointerId) ==
  LET pointers == [state.activePointers EXCEPT ![pointerId] = <<>>]
      remaining == pointers[CHOOSE id \in activeIds(pointers) : TRUE][1]
  IN /\ pc = "run"
     /\ state' = [state EXCEPT
          !.activePointers = pointers,
          !.pinchStartDistance = IF size(pointers) < 2 THEN 0 ELSE @,
          !.isDragging = IF size(pointers) = 0 THEN FALSE
                         ELSE IF size(pointers) = 1 THEN TRUE ELSE @,
          !.lastDragX = IF size(pointers) = 1 THEN remaining.x ELSE @]
     /\ ret' = ""
     /\ UNCHANGED <<pc, fn, arg, host, dom, elapsed>>

\* handleWheel (src/script.js 173-185); delta is 0.1 or -0.1
HandleWheel(deltaY) ==
  LET delta == IF deltaY > 0 THEN 1 ELSE 0 - 1
      newSliderValue ==
        clamp(state.sliderValue + delta, zoomSliderMin, zoomSliderMax)
  IN /\ pc = "run"
     /\ state' = [state EXCEPT
                    !.sliderValue = newSliderValue,
                    !.targetMsPerPixel = toGrid(msPerPixelFromSlider(newSliderValue))]
     /\ dom' = [dom EXCEPT !.zoomSliderValue = sliderToFixed(newSliderValue, 2)]
     /\ elapsed' = scheduleInteractionUpdate
     /\ ret' = ""
     /\ UNCHANGED <<pc, fn, arg, host>>

\* state.targetOffset += pixels * state.renderMsPerPixel, then state.exploring
scrolledBy(pixels) ==
  LET targetOffset == state.targetOffset + state.renderMsPerPixel * pixels
  IN [state EXCEPT
        !.targetOffset = targetOffset,
        !.exploring = isExploring(targetOffset, state.renderMsPerPixel)]

\* handleKeydown (src/script.js 189-222) on one key
KeydownOf(key) ==
  /\ pc = "run"
  /\ CASE key = "ArrowLeft" ->
            /\ state' = scrolledBy(0 - 90)
            /\ dom' = dom
            /\ elapsed' = scheduleInteractionUpdate
       [] key = "ArrowRight" ->
            /\ state' = scrolledBy(90)
            /\ dom' = dom
            /\ elapsed' = scheduleInteractionUpdate
       [] key = "ArrowUp" ->
            /\ state' = adjustSlider(0 - 2).state
            /\ dom' = adjustSlider(0 - 2).dom
            /\ elapsed' = scheduleInteractionUpdate
       [] key = "ArrowDown" ->
            /\ state' = adjustSlider(2).state
            /\ dom' = adjustSlider(2).dom
            /\ elapsed' = scheduleInteractionUpdate
       [] key \in {"0", "Escape"} ->
            /\ state' = resetToNow(state)
            /\ dom' = dom
            /\ elapsed' = scheduleInteractionUpdate
       [] OTHER -> UNCHANGED <<state, dom, elapsed>>
  /\ InReach(state'.targetOffset)
  /\ ret' = IF key \in {"0", "Escape"} THEN returned("keydown") ELSE ""
  /\ UNCHANGED <<pc, fn, arg, host>>

HandleKeydown == \E key \in Keys : KeydownOf(key)

\* time goes by without an event: first the 350 ms after the last tap run
\* out, later the 4000 ms after the last interaction
TimePasses ==
  /\ pc = "run"
  /\ \/ /\ elapsed.sinceTap = "short"
        /\ elapsed' = [elapsed EXCEPT !.sinceTap = "long"]
     \/ /\ elapsed.sinceTap = "long"
        /\ elapsed.sinceInteraction = "short"
        /\ elapsed' = [elapsed EXCEPT !.sinceInteraction = "long"]
  /\ UNCHANGED <<pc, fn, arg, ret, host, state, dom>>

NextView ==
  \/ \E text \in SliderTexts : SliderInput(text)
  \/ ResetButtonClick
  \/ TimezoneToggleClick
  \/ CanvasDblClick
  \/ \E pointerId \in PointerIds, clientX \in PointerXs : PointerDown(pointerId, clientX)
  \/ \E pointerId \in PointerIds, clientX \in PointerXs : PointerMove(pointerId, clientX)
  \/ \E pointerId \in PointerIds : EndPointer(pointerId)
  \/ \E deltaY \in {0 - 100, 0, 100} : HandleWheel(deltaY)
  \/ HandleKeydown
  \/ TimePasses

SpecView == InitView /\ [][NextView]_vars

(***************************************************************************)
(* The frames (src/script.js 237-348).  render and animate are the two     *)
(* callbacks of requestAnimationFrame; render was registered first, so in  *)
(* every frame render runs and then animate, and no event handler runs in  *)
(* between.  fn holds the callback that is due.  Of what render draws, the *)
(* model keeps the descriptor updateInfoPanels writes before the bullet of *)
(* focusValue (what follows it reads the wall clock) and, in arg, the      *)
(* resolution handed to chooseTickInterval.  Factors such as 0.15 are      *)
(* taken as the fractions they stand for, products being rounded to the    *)
(* grid.                                                                   *)
(***************************************************************************)
\* x * num / den on the grid
scaled(x, num, den) == (2 * x * num + den) \div (2 * den)

\* faulty variant: smoothing = 0, the rendered value never follows
easeHeld(current, target) == current

\* faulty variant: current = (target - current) * smoothing
easeStepOnly(current, target) == scaled(target - current, 3, 20)

\* current += (target - current) * smoothing, smoothing = 0.15
\* (src/script.js 266-268)
ease(current, target) == current + scaled(target - current, 3, 20)

\* a count of 1/SubMs ms as the number the core is handed
asMs(steps) == MsNorm(0, steps)

\* Math.abs(state.targetOffset) < state.renderMsPerPixel * 1.2
\* (src/script.js 269)
nearNow(targetOffset, renderMsPerPixel) ==
  5 * MathAbs(targetOffset) < 6 * renderMsPerPixel

\* render (src/script.js 251-335) with updateInfoPanels (237-249)
Render ==
  LET renderMsPerPixel == ease(state.renderMsPerPixel, state.targetMsPerPixel)
      renderOffset == ease(state.renderOffset, state.targetOffset)
      snap == nearNow(state.targetOffset, renderMsPerPixel)
  IN /\ pc = "run"
     /\ fn = "render"
     /\ state' = [state EXCEPT
          !.renderMsPerPixel = renderMsPerPixel,
          !.renderOffset = renderOffset,
          !.targetOffset = IF snap THEN 0 ELSE @,
          !.exploring = IF snap THEN FALSE ELSE @]
     /\ arg' = [msPerPixel |-> renderMsPerPixel]
     /\ dom' = [dom EXCEPT
          !.focusValue = describeOffset(asMs(renderOffset), asMs(renderMsPerPixel)),
          !.timezoneValue = getTimezoneLabel(state.useUTC)]
     /\ fn' = "animate"
     /\ UNCHANGED <<pc, ret, host, elapsed>>

\* faulty variant: the drift is as wide as the view is close to now
driftWholeStep(targetOffset) == targetOffset

\* state.targetOffset *= 0.92 (src/script.js 343)
drift(targetOffset) == scaled(targetOffset, 23, 25)

\* animate (src/script.js 339-346)
Animate ==
  LET drifting == /\ MathAbs(state.targetOffset) < state.renderMsPerPixel * 2
                  /\ elapsed.sinceInteraction = "long"
  IN /\ pc = "run"
     /\ fn = "animate"
     /\ state' = IF drifting
                 THEN [state EXCEPT !.targetOffset = drift(state.targetOffset)]
                 ELSE state
     /\ fn' = "render"
     /\ UNCHANGED <<pc, arg, ret, host, dom, elapsed>>

(***************************************************************************)
(* SpecEase: the controller from its construction with its frames running, *)
(* the user zooming and switching the frame between them.                  *)
(***************************************************************************)
InitEase == fn = "render" /\ Constructed

\* an event handler runs between two frames
BetweenFrames == fn = "render"

NextEase ==
  \/ BetweenFrames /\ \E text \in SliderTexts : SliderInput(text)
  \/ BetweenFrames /\ \E deltaY \in {0 - 100, 100} : HandleWheel(deltaY)
  \/ BetweenFrames /\ \E key \in {"ArrowUp", "ArrowDown"} : KeydownOf(key)
  \/ BetweenFrames /\ TimezoneToggleClick
  \/ BetweenFrames /\ TimePasses
  \/ Render
  \/ Animate

SpecEase == InitEase /\ [][NextEase]_vars

(***************************************************************************)
(* SpecFrames: the frames running on after the last input event.  The view *)
(* is taken between two frames, at rest on some instant or just put back   *)
(* to now from it by the reset button, at any resolution the easing passes *)
(* through; from then on time goes by and every frame is drawn.            *)
(***************************************************************************)
\* the instants of the family lie up to MaxAway pixels to either side of
\* now, in half pixels, or one arrow-key step away
MaxAway == 5

FrameResolutions ==
  toGrid(MathPow10(zoomSliderMin)) .. toGrid(MathPow10(zoomSliderMax))

FrameOffsets(renderMsPerPixel) ==
  {(h * renderMsPerPixel) \div 2 : h \in (0 - 2 * MaxAway) .. (2 * MaxAway)}
    \cup {k * 90 * renderMsPerPixel : k \in KeySteps}

InitFrames ==
  /\ pc = "run"
  /\ fn = "render"
  /\ host = ViewHost
  /\ elapsed \in {[sinceTap |-> t, sinceInteraction |-> "short"] :
                    t \in {"short", "long"}}
  /\ \E sliderValue \in zoomSliderMin .. zoomSliderMax,
        renderMsPerPixel \in FrameResolutions,
        reset \in BOOLEAN :
       \E offset \in FrameOffsets(renderMsPerPixel) :
          /\ state = [sliderValue |-> sliderValue,
                      targetMsPerPixel |-> toGrid(msPerPixelFromSlider(sliderValue)),
                      renderMsPerPixel |-> renderMsPerPixel,
                      targetOffset |-> IF reset THEN 0 ELSE offset,
                      renderOffset |-> offset,
                      useUTC |-> FALSE,
                      exploring |-> ~reset /\ isExploring(offset, renderMsPerPixel),
                      activePointers |-> [id \in PointerIds |-> <<>>],
                      isDragging |-> FALSE,
                      lastDragX |-> 0,
                      pinchStartDistance |-> 0,
                      pinchStartSliderValue |-> zoomSliderStart]
          /\ dom = [zoomSliderValue |-> sliderToFixed(sliderValue, 2),
                    ariaPressed |-> "false",
                    toggleText |-> "Use Coordinated Universal Time",
                    timezoneValue |-> getTimezoneLabel(FALSE),
                    focusValue |-> describeOffset(asMs(offset), asMs(renderMsPerPixel))]
          /\ arg = [msPerPixel |-> renderMsPerPixel]
          /\ ret = IF reset /\ isExploring(offset, renderMsPerPixel)
                   THEN "click" ELSE ""

NextFrames ==
  \/ Render
  \/ Animate
  \/ BetweenFrames /\ TimePasses

\* requestAnimationFrame(render): the step that takes the frame from render
\* to animate, which only Render does
RenderDue == pc = "run" /\ fn = "render" /\ fn' = "animate"

\* requestAnimationFrame calls back every callback it was given, and the
\* clocks go on
SpecFrames ==
  /\ InitFrames
  /\ [][NextFrames]_vars
  /\ WF_fn(RenderDue)
  /\ WF_vars(Animate)
  /\ WF_vars(BetweenFrames /\ TimePasses)

(***************************************************************************)
(* Claims about the controller.                                            *)
(***************************************************************************)
\* the second pointerdown of a double tap: one that arrives less than
\* 350 ms after the previous one
DoubleTap ==
  /\ elapsed.sinceTap = "short"
  /\ \E pointerId \in PointerIds, clientX \in PointerXs :
        PointerDown(pointerId, clientX)

ResetAction ==
  \/ ResetButtonClick
  \/ CanvasDblClick
  \/ DoubleTap
  \/ KeydownOf("0")
  \/ KeydownOf("Escape")

\* C15: every reset action (the reset button, a double-click on the canvas,
\* the second pointerdown of a double tap, the "0" or "Escape" key) leaves
\* targetOffset at 0 and exploring false, whatever the view state it is
\* taken in.
C15_ResetReturnsToNow ==
  [][ResetAction => (state'.targetOffset = 0 /\ ~state'.exploring)]_vars

\* a double tap has just brought an exploring view back to now
C15_Witness ==
  /\ pc = "run"
  /\ ret = "pointerdown"
  /\ state.targetOffset = 0
  /\ ~state.exploring

\* C16: the timezone toggle flips useUTC and leaves targetOffset,
\* renderOffset, sliderValue, targetMsPerPixel and renderMsPerPixel as they
\* were.
C16_ToggleKeepsTheInstant ==
  [][TimezoneToggleClick =>
       /\ state'.useUTC = ~state.useUTC
       /\ state'.targetOffset = state.targetOffset
       /\ state'.renderOffset = state.renderOffset
       /\ state'.sliderValue = state.sliderValue
       /\ state'.targetMsPerPixel = state.targetMsPerPixel
       /\ state'.renderMsPerPixel = state.renderMsPerPixel]_vars

\* the frame toggled to UTC while the view is away from now
C16_Witness ==
  /\ pc = "run"
  /\ state.useUTC
  /\ dom.timezoneValue = "UTC"
  /\ state.targetOffset # 0
  /\ state.exploring

\* C20: whatever wheel, arrow-key and pinch events have been handled,
\* sliderValue lies within [zoomSlider.min, zoomSlider.max] and
\* targetMsPerPixel is 10^sliderValue.
C20_ZoomClampedAndInStep ==
  pc = "run" =>
     /\ zoomSliderMin <= state.sliderValue
     /\ state.sliderValue <= zoomSliderMax
     /\ state.targetMsPerPixel = toGrid(MathPow10(state.sliderValue))

\* a pinch that would carry the zoom level beyond zoomSlider.max, held at it
C20_Witness ==
  /\ pc = "run"
  /\ size(state.activePointers) = 2
  /\ state.pinchStartDistance > 0
  /\ pointsDistance(state.activePointers) > 0
  /\ state.pinchStartSliderValue
       - MathLog10(pointsDistance(state.activePointers), state.pinchStartDistance)
       > zoomSliderMax
  /\ state.sliderValue = zoomSliderMax
  /\ dom.zoomSliderValue = sliderToFixed(zoomSliderMax, 2)

\* a pointermove of pointerId to clientX, seen from outside: how far the
\* pointer has travelled since the handlers last heard of it
travelled(pointerId, clientX) == clientX - state.activePointers[pointerId][1].x

\* where pointerId is once the step is taken (0 when it is not down)
arrivedAt(pointerId) ==
  IF state'.activePointers[pointerId] = <<>> THEN 0
  ELSE state'.activePointers[pointerId][1].x

\* C23: a pointermove with exactly one active pointer changes targetOffset by
\* -deltaX * renderMsPerPixel, deltaX being the distance the pointer has
\* travelled, and leaves sliderValue and targetMsPerPixel as they were; one
\* with exactly two active pointers leaves targetOffset as it was; one for a
\* pointer id that is not in activePointers changes no view state at all.
C23_DragScrubsPinchZooms ==
  [][\A pointerId \in PointerIds :
       PointerMove(pointerId, arrivedAt(pointerId)) =>
         IF state.activePointers[pointerId] = <<>>
         THEN state' = state
         ELSE /\ size(state.activePointers) = 1 =>
                   /\ state'.targetOffset =
                        state.targetOffset
                          - travelled(pointerId, arrivedAt(pointerId))
                              * state.renderMsPerPixel
                   /\ state'.sliderValue = state.sliderValue
                   /\ state'.targetMsPerPixel = state.targetMsPerPixel
              /\ size(state.activePointers) = 2 =>
                   state'.targetOffset = state.targetOffset]_vars

\* a drag of one pixel to the right since the view was at now, by the one
\* pointer that is down
C23_Witness ==
  /\ pc = "run"
  /\ size(state.activePointers) = 1
  /\ state.lastDragX = 1
  /\ state.targetOffset = 0 - state.renderMsPerPixel
  /\ state.sliderValue = zoomSliderStart

\* C25: isDragging is true exactly when activePointers is non-empty, and
\* pinchStartDistance is 0 whenever fewer than two pointers are active,
\* after every pointer handler in any interleaving.
C25_GestureFlagsFollowPointers ==
  pc = "run" =>
     /\ state.isDragging <=> size(state.activePointers) > 0
     /\ size(state.activePointers) < 2 => state.pinchStartDistance = 0

\* one pointer is left of a pinch that has ended: the zoom level noted when
\* the pinch began differs from the page's, and the pinch distance is cleared
C25_Witness ==
  /\ pc = "run"
  /\ size(state.activePointers) = 1
  /\ state.isDragging
  /\ state.pinchStartDistance = 0
  /\ state.pinchStartSliderValue # zoomSliderStart

\* C24: in every reachable view state renderMsPerPixel is strictly positive,
\* each frame leaving it between its previous value and targetMsPerPixel, so
\* that the resolution render hands to chooseTickInterval and describeOffset
\* is strictly positive.
C24_ResolutionStaysPositive ==
  /\ [](pc = "run" =>
          /\ state.renderMsPerPixel > 0
          /\ arg # <<>> => arg.msPerPixel > 0)
  /\ [][Render =>
          \/ /\ state.renderMsPerPixel <= state'.renderMsPerPixel
             /\ state'.renderMsPerPixel <= state.targetMsPerPixel
          \/ /\ state.targetMsPerPixel <= state'.renderMsPerPixel
             /\ state'.renderMsPerPixel <= state.renderMsPerPixel]_vars

\* a frame drawn while the view eases from the finest zoom level towards the
\* coarsest
C24_Witness ==
  /\ pc = "run"
  /\ arg # <<>>
  /\ state.sliderValue = zoomSliderMax
  /\ arg.msPerPixel = state.renderMsPerPixel
  /\ toGrid(MathPow10(zoomSliderMin)) < state.renderMsPerPixel
  /\ state.renderMsPerPixel < toGrid(MathPow10(zoomSliderStart))

\* what describeOffset returns for the eased view
Narrated ==
  describeOffset(asMs(state.renderOffset), asMs(state.renderMsPerPixel))

\* C21: once the view has been put back to now (targetOffset 0, exploring
\* false) and no input event follows, the frames bring renderOffset close
\* enough to 0 for describeOffset(renderOffset, renderMsPerPixel) to return
\* "Present", and it returns "Present" from then on.
C21_ResetEasesToPresent ==
  (pc = "run" /\ state.targetOffset = 0 /\ ~state.exploring)
     ~> [](Narrated = "Present")

\* the reset button found the view exploring, and the panel reads "Present"
\* again
C21_Witness ==
  /\ pc = "run"
  /\ ret = "click"
  /\ state.renderOffset # 0
  /\ Narrated = "Present"
  /\ dom.focusValue = "Present"

\* more than 4000 ms have passed since the last interaction
Idle == pc = "run" /\ elapsed.sinceInteraction = "long"

WithinDrift ==
  /\ MathAbs(state.targetOffset) < 2 * state.renderMsPerPixel
  /\ MathAbs(state.targetOffset) < 2 * state.targetMsPerPixel

\* the view is two pixels or more away from now, at both resolutions
BeyondDrift ==
  /\ MathAbs(state.targetOffset) >= 2 * state.renderMsPerPixel
  /\ MathAbs(state.targetOffset) >= 2 * state.targetMsPerPixel

=============================================================================
